---- MODULE Spec2Model ----
(***************************************************************************)
(* Marley-Claude memory bridge (src/memory-sync/marley_claude_bridge.py).  *)
(*                                                                         *)
(* The module models                                                       *)
(*   - SpectralScrollWalker.analyze_spectral_pattern and                   *)
(*     align_memory_nodes as operators over character sequences,           *)
(*   - MarleyClaudeBridge.sync_memory_bidirectional and                    *)
(*     harmonize_markdown_content as the steps three coroutines take on    *)
(*     one asyncio event loop: start_server's initial run ("main"), the    *)
(*     websocket handler ("ws") and the REST handler ("rest").             *)
(*                                                                         *)
(* A string is a sequence of one-character strings.  A float that the code *)
(* computes from small integers is kept as the reduced fraction <<n, d>>.  *)
(***************************************************************************)
EXTENDS Integers, Sequences, FiniteSets, TLC

VARIABLES
  \* analyze_spectral_pattern and align_memory_nodes applied to an input
  content_in,      \* the content handed to analyze_spectral_pattern
  locals_out,      \* its locals (line and element counts, thread list)
  analysis_out,    \* the dictionary it returns
  nodes_in,        \* the node list handed to align_memory_nodes
  nodes_out,       \* the list it returns
  pure_pc,         \* "input" before the call, "returned" after it
  \* the bridge and its two collaborators
  store,           \* the Airtable table: record id -> fields
  clock,           \* what datetime.now() returns, in runs started
  edits,           \* edits other clients of the table have made
  memory_cache,    \* MarleyClaudeBridge.memory_cache
  pc,              \* where each coroutine stands
  marley_records,  \* sync_memory_bidirectional's local, per coroutine
  aligned_nodes,   \* sync_memory_bidirectional's local, per coroutine
  update_log,      \* the airtable.update calls of the run, per coroutine
  result,          \* what the operation returned, per coroutine
  run_count,       \* synchronization runs started so far
  my_run,          \* the number of each coroutine's latest run
  last_aligned,    \* record id -> its node in the latest batch aligned
  written,         \* record id -> number of the run that last cached it
  h_request,       \* the harmonize_content message being served
  claude_calls     \* messages.create calls made for that message

pure_vars == <<content_in, locals_out, analysis_out, nodes_in, nodes_out, pure_pc>>

env_vars == <<store, clock, edits>>

run_vars == <<marley_records, aligned_nodes, update_log, run_count, my_run>>

ghost_vars == <<last_aligned, written>>

harmonize_vars == <<h_request, claude_calls>>

vars == <<pure_vars, env_vars, memory_cache, pc, run_vars, result, ghost_vars,
          harmonize_vars>>

\* ------------------------------------------------------------------ bounds
\* Number of text fragments an analysed content is built from.
MaxFrags == 4
\* Length of the node sequence handed to align_memory_nodes.
MaxNodes == 2
\* Edits other clients make to the table.
MaxEdits == 1
\* Synchronization runs started, the initial run of start_server included.
MaxRuns == 3

\* ------------------------------------------------------------- characters
NL == "\n"

Empty == <<>>

\* "# Title\nSee [[Concept]] and [label](url)\n#tag here"
Example ==
  <<"#", " ", "T", "i", "t", "l", "e", NL,
    "S", "e", "e", " ", "[", "[", "C", "o", "n", "c", "e", "p", "t", "]", "]",
    " ", "a", "n", "d", " ", "[", "l", "a", "b", "e", "l", "]", "(", "u", "r",
    "l", ")", NL,
    "#", "t", "a", "g", " ", "h", "e", "r", "e">>

Concept == <<"C", "o", "n", "c", "e", "p", "t">>

label == <<"l", "a", "b", "e", "l">>

\* ---------------------------------------------------------------- floats
RECURSIVE GCD(_, _)
GCD(a, b) == IF b = 0 THEN a ELSE GCD(b, a % b)

\* n / d for d > 0, as a reduced fraction.  The float division rounds
\* monotonically and keeps fractions of such small terms apart, so the
\* fractions compare as the floats do.
Frac(n, d) == LET g == GCD(n, d) IN <<n \div g, d \div g>>

Zero == <<0, 1>>

FracLess(a, b) == a[1] * b[2] < b[1] * a[2]

\* The sum of two frequencies, without the rounding of the float sum.
FracAdd(a, b) == Frac(a[1] * b[2] + b[1] * a[2], a[2] * b[2])

\* ------------------------------------------------------- string helpers
\* str.split('\n'): the pieces between newlines; always at least one piece.
RECURSIVE SplitFrom(_, _, _)
SplitFrom(s, i, cur) ==
  IF i > Len(s) THEN <<cur>>
  ELSE IF s[i] = NL THEN <<cur>> \o SplitFrom(s, i + 1, <<>>)
  ELSE SplitFrom(s, i + 1, Append(cur, s[i]))

\* A split that yields no line for empty content (not what str.split does).
split_no_line_for_empty(content) ==
  IF content = <<>> THEN <<>> ELSE SplitFrom(content, 1, <<>>)

split(content) == SplitFrom(content, 1, <<>>)

\* l.startswith('#')
startswith_hash(l) == Len(l) >= 1 /\ l[1] = "#"

\* sub in l
Contains(l, sub) ==
  \E i \in 1..(Len(l) - Len(sub) + 1) : SubSeq(l, i, i + Len(sub) - 1) = sub

\* Index of the first c in l at or after from; 0 when there is none.
FirstIndex(l, c, from) ==
  IF \E j \in from..Len(l) : l[j] = c
  THEN CHOOSE j \in from..Len(l) :
         l[j] = c /\ \A k \in from..(j - 1) : l[k] # c
  ELSE 0

\* re.findall(r'\[\[([^\]]+)\]\]', l) scanning from position i: the leftmost
\* non-overlapping matches, each giving its group.
RECURSIVE wikilinks_from(_, _)
wikilinks_from(l, i) ==
  IF i > Len(l) THEN <<>>
  ELSE LET j == FirstIndex(l, "]", i + 2)
           m == /\ i + 1 <= Len(l)
                /\ l[i] = "[" /\ l[i + 1] = "["
                /\ j >= i + 3
                /\ j + 1 <= Len(l)
                /\ l[j + 1] = "]"
       IN IF m THEN <<SubSeq(l, i + 2, j - 1)>> \o wikilinks_from(l, j + 2)
          ELSE wikilinks_from(l, i + 1)

\* re.findall(r'\[([^\]]+)\]\([^\)]+\)', l) scanning from position i.
RECURSIVE regular_links_from(_, _)
regular_links_from(l, i) ==
  IF i > Len(l) THEN <<>>
  ELSE LET j == FirstIndex(l, "]", i + 1)
           k == FirstIndex(l, ")", j + 2)
           m == /\ l[i] = "["
                /\ j >= i + 2
                /\ j + 1 <= Len(l)
                /\ l[j + 1] = "("
                /\ k >= j + 3
       IN IF m THEN <<SubSeq(l, i + 1, j - 1)>> \o regular_links_from(l, k + 1)
          ELSE regular_links_from(l, i + 1)

\* The threads of the lines from position i on, in the order the loop
\* extends the list.
RECURSIVE threads_from(_, _)
threads_from(lines, i) ==
  IF i > Len(lines) THEN <<>>
  ELSE wikilinks_from(lines[i], 1) \o regular_links_from(lines[i], 1)
         \o threads_from(lines, i + 1)

Range(s) == {s[i] : i \in DOMAIN s}

\* list(set(threads)): each thread once, in the order hashing fixes.  No
\* operator below reads more of that order than that it is some order.
list_of_set(threads) ==
  LET S == Range(threads)
  IN CHOOSE q \in [1..Cardinality(S) -> S] : Range(q) = S

\* ---------------------------------------------------- Structural Analyzer
is_heading_line(l) == startswith_hash(l)

is_link_line(l) == Contains(l, <<"[", "[">>) \/ Contains(l, <<"]", "(">>)

\* A tag line that counts every line holding a '#', heading lines included.
is_tag_line_any_hash(l) == Contains(l, <<"#">>)

is_tag_line(l) == Contains(l, <<"#">>) /\ ~startswith_hash(l)

\* The locals of analyze_spectral_pattern before the division.
analyze_locals(content) ==
  LET lines == split(content)
  IN [lines |-> Len(lines),
      heading_count |-> Cardinality({i \in DOMAIN lines : is_heading_line(lines[i])}),
      link_count |-> Cardinality({i \in DOMAIN lines : is_link_line(lines[i])}),
      tag_count |-> Cardinality({i \in DOMAIN lines : is_tag_line(lines[i])}),
      resonance_threads |-> threads_from(lines, 1)]

\* The division by len(lines) raises when there is no line.
ZeroDivisionError == [raised |-> TRUE]

\* heading_count * 2 + link_count + tag_count * 0.5 is kept in halves.
analyze_spectral_pattern(content) ==
  LET loc == analyze_locals(content)
  IN IF loc.lines = 0 THEN ZeroDivisionError
     ELSE [raised |-> FALSE,
           spectral_frequency |->
             Frac(4 * loc.heading_count + 2 * loc.link_count + loc.tag_count,
                  2 * loc.lines),
           resonance_threads |-> list_of_set(loc.resonance_threads),
           structural_depth |-> loc.heading_count,
           connection_density |->
             IF loc.lines > 0 THEN Frac(loc.link_count, loc.lines) ELSE Zero]

\* ------------------------------------------------------------ Node Aligner
\* The node built with the status the input node carried.
aligned_node_keeps_status(node, spectral_data) ==
  [id |-> node.id,
   content |-> node.content,
   markdown_format |-> node.markdown_format,
   spectral_frequency |-> spectral_data.spectral_frequency,
   resonance_threads |-> spectral_data.resonance_threads,
   timestamp |-> node.timestamp,
   source |-> node.source,
   harmonization_status |-> node.harmonization_status]

\* The MemoryNode(...) built in the loop of align_memory_nodes.
aligned_node(node, spectral_data) ==
  [id |-> node.id,
   content |-> node.content,
   markdown_format |-> node.markdown_format,
   spectral_frequency |-> spectral_data.spectral_frequency,
   resonance_threads |-> spectral_data.resonance_threads,
   timestamp |-> node.timestamp,
   source |-> node.source,
   harmonization_status |-> "aligned"]

\* An insertion that gives up a node whose id the list already holds.
insert_desc_unique_id(s, n) ==
  IF \E i \in DOMAIN s : s[i].id = n.id THEN s
  ELSE LET k == Cardinality({i \in DOMAIN s :
                               ~FracLess(s[i].spectral_frequency, n.spectral_frequency)})
       IN SubSeq(s, 1, k) \o <<n>> \o SubSeq(s, k + 1, Len(s))

\* The insertion of a sort without reverse=True: ascending frequency.
insert_asc(s, n) ==
  LET k == Cardinality({i \in DOMAIN s :
                          ~FracLess(n.spectral_frequency, s[i].spectral_frequency)})
  IN SubSeq(s, 1, k) \o <<n>> \o SubSeq(s, k + 1, Len(s))

\* s is sorted by descending frequency; n goes after every element whose
\* frequency is not below its own (the sort is stable).
insert_desc(s, n) ==
  LET k == Cardinality({i \in DOMAIN s :
                          ~FracLess(s[i].spectral_frequency, n.spectral_frequency)})
  IN SubSeq(s, 1, k) \o <<n>> \o SubSeq(s, k + 1, Len(s))

\* sorted(aligned_nodes, key=lambda n: n.spectral_frequency, reverse=True)
RECURSIVE sorted_desc_from(_, _, _)
sorted_desc_from(nodes, i, acc) ==
  IF i > Len(nodes) THEN acc
  ELSE sorted_desc_from(nodes, i + 1, insert_desc(acc, nodes[i]))

sorted_by_frequency_desc(nodes) == sorted_desc_from(nodes, 1, <<>>)

\* [raised, nodes]: raised when analyze_spectral_pattern raised for a node.
align_memory_nodes(nodes) ==
  LET data == [i \in DOMAIN nodes |-> analyze_spectral_pattern(nodes[i].content)]
  IN IF \E i \in DOMAIN nodes : data[i].raised
     THEN [raised |-> TRUE, nodes |-> <<>>]
     ELSE [raised |-> FALSE,
           nodes |-> sorted_by_frequency_desc(
                       [i \in DOMAIN nodes |-> aligned_node(nodes[i], data[i])])]

\* ------------------------------------------------------ the bridge at rest
\* start_server's initial run, the websocket handler, the REST handler.
Procs == {"main", "ws", "rest"}

Handlers == {"ws", "rest"}

RecordIds == {"recA", "recB"}

NoResult == [returned |-> FALSE]

NoRequest == [content |-> Empty, target_format |-> "obsidian"]

\* MarleyClaudeBridge.__init__: an empty cache; no coroutine has run yet.
BridgeConstructed ==
  /\ memory_cache = <<>>
  /\ pc = [p \in Procs |-> IF p = "main" THEN "start" ELSE "idle"]
  /\ marley_records = [p \in Procs |-> <<>>]
  /\ aligned_nodes = [p \in Procs |-> <<>>]
  /\ update_log = [p \in Procs |-> <<>>]
  /\ result = [p \in Procs |-> NoResult]
  /\ run_count = 0
  /\ my_run = [p \in Procs |-> 0]
  /\ last_aligned = <<>>
  /\ written = <<>>
  /\ h_request = NoRequest
  /\ claude_calls = 0

\* The pure functions are checked with the bridge left as constructed, over
\* an empty table.
BridgeUnused ==
  /\ BridgeConstructed
  /\ store = [id \in RecordIds |-> [Format |-> "obsidian"]]
  /\ clock = 0
  /\ edits = 0

bridge_vars == <<env_vars, memory_cache, pc, run_vars, result, ghost_vars,
                 harmonize_vars>>

\* ------------------------------------------------- inputs of the analyzer
Fragments ==
  {<<"#">>, <<"[", "[">>, <<"]", "]">>, <<"[">>, <<"]", "(">>, <<")">>,
   <<"a">>, <<NL>>}

RECURSIVE ContentsOf(_)
ContentsOf(k) ==
  IF k = 0 THEN {<<>>}
  ELSE LET prev == ContentsOf(k - 1)
       IN prev \cup {c \o f : c \in prev, f \in Fragments}

AnalyzeInputs == ContentsOf(MaxFrags) \cup {Example}

NoAnalysis == [raised |-> FALSE]

NoLocals == [lines |-> 0]

InitAnalyze ==
  /\ content_in \in AnalyzeInputs
  /\ locals_out = NoLocals
  /\ analysis_out = NoAnalysis
  /\ nodes_in = <<>>
  /\ nodes_out = <<>>
  /\ pure_pc = "input"
  /\ BridgeUnused

\* api_spectral_analyze: one call of analyze_spectral_pattern.
Analyze ==
  /\ pure_pc = "input"
  /\ locals_out' = analyze_locals(content_in)
  /\ analysis_out' = analyze_spectral_pattern(content_in)
  /\ pure_pc' = "returned"
  /\ UNCHANGED <<content_in, nodes_in, nodes_out, bridge_vars>>

NextAnalyze == Analyze

SpecAnalyze == InitAnalyze /\ [][NextAnalyze]_vars

\* -------------------------------------------------- inputs of the aligner
AlignIds == {"recA", "recB"}

\* Frequencies 0, 2, 1/2, 1/2 and 1.
AlignContents ==
  {Empty,
   <<"#">>,
   <<"a", "#">>,
   <<"a", NL, "[", "[", "a", "]", "]">>,
   <<"[", "[", "a", "]", "]">>}

\* The fields align_memory_nodes copies or replaces, as a caller may pass them.
NodeVariants ==
  {[markdown_format |-> "unknown", spectral_frequency |-> Zero,
    resonance_threads |-> <<>>, timestamp |-> 0, source |-> "marley",
    harmonization_status |-> "pending"],
   [markdown_format |-> "obsidian", spectral_frequency |-> <<7, 2>>,
    resonance_threads |-> <<<<"x">>>>, timestamp |-> 1, source |-> "claude",
    harmonization_status |-> "aligned"],
   [markdown_format |-> "unknown", spectral_frequency |-> <<1, 2>>,
    resonance_threads |-> <<>>, timestamp |-> 2, source |-> "hybrid",
    harmonization_status |-> "pending"]}

MemoryNode(id, content, v) ==
  [id |-> id,
   content |-> content,
   markdown_format |-> v.markdown_format,
   spectral_frequency |-> v.spectral_frequency,
   resonance_threads |-> v.resonance_threads,
   timestamp |-> v.timestamp,
   source |-> v.source,
   harmonization_status |-> v.harmonization_status]

NodePool == {MemoryNode(id, c, v) : id \in AlignIds, c \in AlignContents, v \in NodeVariants}

RECURSIVE SeqsUpTo(_, _)
SeqsUpTo(S, k) ==
  IF k = 0 THEN {<<>>}
  ELSE LET prev == SeqsUpTo(S, k - 1)
       IN prev \cup {Append(q, x) : q \in prev, x \in S}

InitAlign ==
  /\ content_in = Empty
  /\ locals_out = NoLocals
  /\ analysis_out = NoAnalysis
  /\ nodes_in \in SeqsUpTo(NodePool, MaxNodes)
  /\ nodes_out = <<>>
  /\ pure_pc = "input"
  /\ BridgeUnused

\* One call of align_memory_nodes.
Align ==
  /\ pure_pc = "input"
  /\ LET r == align_memory_nodes(nodes_in)
     IN /\ nodes_out' = r.nodes
        /\ pure_pc' = IF r.raised THEN "raised" ELSE "returned"
  /\ UNCHANGED <<content_in, locals_out, analysis_out, nodes_in, bridge_vars>>

NextAlign == Align

SpecAlign == InitAlign /\ [][NextAlign]_vars

\* ------------------------------------------------------ Sync Orchestrator
\* The fields other clients of the table give a record.
UserFields ==
  {[Format |-> "obsidian"],
   [Content |-> <<"#">>],
   [Content |-> <<"a", "#", "[", "[", "a", "]", "]">>, Format |-> "obsidian"]}

\* The table as the bridge finds it: one record with content and one without,
\* or two with content, the second of the higher frequency.
InitialTables ==
  {[id \in RecordIds |->
      IF id = "recA" THEN [Content |-> <<"#">>] ELSE [Format |-> "obsidian"]],
   [id \in RecordIds |->
      IF id = "recA"
      THEN [Content |-> <<"a", "#", "[", "[", "a", "]", "]">>, Format |-> "obsidian"]
      ELSE [Content |-> <<"#">>]]}

\* The field names sync_memory_bidirectional writes back.
SyncFields == {"SpectralFrequency", "ResonanceThreads", "HarmonizationStatus", "LastSync"}

\* A dictionary with the entries of upd put over those of old.
dict_update(old, upd) ==
  [f \in DOMAIN old \cup DOMAIN upd |-> IF f \in DOMAIN upd THEN upd[f] ELSE old[f]]

\* The order in which the table lists its records.
TableOrder == <<"recA", "recB">>

\* airtable.get_all(): every record, in the order the table lists them.
get_all(st) == [i \in DOMAIN TableOrder |-> [id |-> TableOrder[i], fields |-> st[TableOrder[i]]]]

\* airtable.update(record_id, fields)
airtable_update(st, record_id, fields) ==
  [st EXCEPT ![record_id] = dict_update(st[record_id], fields)]

\* 'Content' in fields
has_content(record) == "Content" \in DOMAIN record.fields

\* The MemoryNode(...) built from a fetched record.
marley_node(record, now) ==
  [id |-> record.id,
   content |-> record.fields.Content,
   markdown_format |->
     IF "Format" \in DOMAIN record.fields THEN record.fields.Format ELSE "unknown",
   spectral_frequency |-> Zero,
   resonance_threads |-> <<>>,
   timestamp |-> now,
   source |-> "marley",
   harmonization_status |-> "pending"]

\* A loop that takes a record without a Content field as one of empty content.
marley_nodes_of_all(records, now) ==
  [i \in DOMAIN records |->
     [id |-> records[i].id,
      content |-> IF "Content" \in DOMAIN records[i].fields
                  THEN records[i].fields.Content ELSE Empty,
      markdown_format |->
        IF "Format" \in DOMAIN records[i].fields
        THEN records[i].fields.Format ELSE "unknown",
      spectral_frequency |-> Zero,
      resonance_threads |-> <<>>,
      timestamp |-> now,
      source |-> "marley",
      harmonization_status |-> "pending"]]

\* The loop over marley_records.
marley_nodes_of(records, now) ==
  LET kept == SelectSeq(records, has_content)
  IN [i \in DOMAIN kept |-> marley_node(kept[i], now)]

\* A cache that keeps the entry an id already has.
cache_keep_existing(cache, node) ==
  IF node.id \in DOMAIN cache THEN cache
  ELSE [id \in DOMAIN cache \cup {node.id} |->
          IF id = node.id THEN node ELSE cache[id]]

\* A cache that merges: an id cached before keeps the timestamp it had.
cache_put_merge(cache, node) ==
  [id \in DOMAIN cache \cup {node.id} |->
     IF id # node.id THEN cache[id]
     ELSE IF id \in DOMAIN cache
          THEN [node EXCEPT !.timestamp = cache[id].timestamp]
          ELSE node]

\* self.memory_cache[node.id] = node
cache_put(cache, node) ==
  [id \in DOMAIN cache \cup {node.id} |-> IF id = node.id THEN node ELSE cache[id]]

\* for node in aligned_nodes: self.memory_cache[node.id] = node
RECURSIVE cache_update_from(_, _, _)
cache_update_from(cache, nodes, i) ==
  IF i > Len(nodes) THEN cache
  ELSE cache_update_from(cache_put(cache, nodes[i]), nodes, i + 1)

\* ', '.join(threads)
RECURSIVE join_from(_, _)
join_from(threads, i) ==
  IF i > Len(threads) THEN <<>>
  ELSE IF i = Len(threads) THEN threads[i]
  ELSE threads[i] \o <<",", " ">> \o join_from(threads, i + 1)

\* The fields of one airtable.update call.
update_fields(node, now) ==
  [SpectralFrequency |-> node.spectral_frequency,
   ResonanceThreads |-> join_from(node.resonance_threads, 1),
   HarmonizationStatus |-> node.harmonization_status,
   LastSync |-> now]

RECURSIVE sum_frequency_from(_, _)
sum_frequency_from(nodes, i) ==
  IF i > Len(nodes) THEN Zero
  ELSE FracAdd(nodes[i].spectral_frequency, sum_frequency_from(nodes, i + 1))

\* The dictionary sync_memory_bidirectional returns.
sync_summary(nodes, now) ==
  [returned |-> TRUE,
   synchronized_nodes |-> Len(nodes),
   total_spectral_frequency |-> sum_frequency_from(nodes, 1),
   unique_resonance_threads |->
     Cardinality(UNION {Range(nodes[i].resonance_threads) : i \in DOMAIN nodes}),
   timestamp |-> now]

\* datetime.now() is read to the microsecond and a run waits on the network
\* before it ends, so each run starts at a later reading than the run before
\* it: the clock counts the runs started, and every reading within a run or
\* a harmonization gives the count then.

\* One event loop: a run has no await in it, so from its fetch to its return
\* or its exception no other coroutine takes a step.
LoopFree == \A q \in Procs : pc[q] # "writeback"

\* The coroutine is about to call sync_memory_bidirectional: start_server
\* before it serves, a handler once the server serves.
CanCallSync(p) ==
  /\ LoopFree
  /\ run_count < MaxRuns
  /\ IF p = "main" THEN pc[p] = "start"
     ELSE pc[p] = "idle" /\ pc["main"] = "serving"

\* Lines 172-195: get_all succeeds; the nodes are built, aligned and cached.
SyncFetch(p) ==
  /\ CanCallSync(p)
  /\ \E records \in {get_all(store)} :
     \E aligned \in {align_memory_nodes(marley_nodes_of(records, clock + 1))} :
          /\ marley_records' = [marley_records EXCEPT ![p] = records]
          /\ aligned_nodes' = [aligned_nodes EXCEPT ![p] = aligned.nodes]
          /\ pc' = [pc EXCEPT ![p] = IF aligned.raised THEN "failed" ELSE "writeback"]
          /\ memory_cache' = cache_update_from(memory_cache, aligned.nodes, 1)
          /\ last_aligned' =
               LET ids == {aligned.nodes[i].id : i \in DOMAIN aligned.nodes}
               IN [id \in DOMAIN last_aligned \cup ids |->
                     IF id \in ids
                     THEN aligned.nodes[CHOOSE i \in DOMAIN aligned.nodes :
                                          /\ aligned.nodes[i].id = id
                                          /\ \A j \in DOMAIN aligned.nodes :
                                               aligned.nodes[j].id = id => j <= i]
                     ELSE last_aligned[id]]
          /\ written' =
               LET ids == {aligned.nodes[i].id : i \in DOMAIN aligned.nodes}
               IN [id \in DOMAIN written \cup ids |->
                     IF id \in ids THEN run_count + 1 ELSE written[id]]
  /\ update_log' = [update_log EXCEPT ![p] = <<>>]
  /\ result' = [result EXCEPT ![p] = NoResult]
  /\ run_count' = run_count + 1
  /\ my_run' = [my_run EXCEPT ![p] = run_count + 1]
  /\ clock' = clock + 1
  /\ UNCHANGED <<pure_vars, store, edits, harmonize_vars>>

\* Line 172: get_all raises; the exception leaves the run.
SyncFetchFail(p) ==
  /\ CanCallSync(p)
  /\ pc' = [pc EXCEPT ![p] = "failed"]
  /\ marley_records' = [marley_records EXCEPT ![p] = <<>>]
  /\ aligned_nodes' = [aligned_nodes EXCEPT ![p] = <<>>]
  /\ update_log' = [update_log EXCEPT ![p] = <<>>]
  /\ result' = [result EXCEPT ![p] = NoResult]
  /\ run_count' = run_count + 1
  /\ my_run' = [my_run EXCEPT ![p] = run_count + 1]
  /\ clock' = clock + 1
  /\ UNCHANGED <<pure_vars, store, edits, memory_cache, ghost_vars, harmonize_vars>>

\* Lines 198-204: the next airtable.update call succeeds.
SyncUpdate(p) ==
  /\ pc[p] = "writeback"
  /\ Len(update_log[p]) < Len(aligned_nodes[p])
  /\ LET node == aligned_nodes[p][Len(update_log[p]) + 1]
         fields == update_fields(node, clock)
     IN /\ store' = airtable_update(store, node.id, fields)
        /\ update_log' = [update_log EXCEPT
                            ![p] = Append(@, [id |-> node.id, fields |-> fields])]
  /\ UNCHANGED <<pure_vars, clock, edits, memory_cache, pc, marley_records,
                 aligned_nodes, run_count, my_run, result, ghost_vars,
                 harmonize_vars>>

\* A failing update that takes the nodes of the run out of the cache again.
SyncUpdateFail_rollback(p) ==
  /\ pc[p] = "writeback"
  /\ Len(update_log[p]) < Len(aligned_nodes[p])
  /\ pc' = [pc EXCEPT ![p] = "failed"]
  /\ memory_cache' =
       [id \in DOMAIN memory_cache \ {aligned_nodes[p][i].id : i \in DOMAIN aligned_nodes[p]}
          |-> memory_cache[id]]
  /\ UNCHANGED <<pure_vars, env_vars, run_vars, result, ghost_vars, harmonize_vars>>

\* Lines 198-204: the next airtable.update call raises; the exception leaves
\* the run.
SyncUpdateFail(p) ==
  /\ pc[p] = "writeback"
  /\ Len(update_log[p]) < Len(aligned_nodes[p])
  /\ pc' = [pc EXCEPT ![p] = "failed"]
  /\ UNCHANGED <<pure_vars, env_vars, memory_cache, run_vars, result, ghost_vars,
                 harmonize_vars>>

\* Lines 206-215: every node is written back; the summary is returned.
SyncReturn(p) ==
  /\ pc[p] = "writeback"
  /\ Len(update_log[p]) = Len(aligned_nodes[p])
  /\ result' = [result EXCEPT ![p] = sync_summary(aligned_nodes[p], clock)]
  /\ pc' = [pc EXCEPT ![p] = "returned"]
  /\ UNCHANGED <<pure_vars, env_vars, memory_cache, run_vars, ghost_vars,
                 harmonize_vars>>

\* start_server goes on to server.serve() after its initial run.
Serve ==
  /\ pc["main"] = "returned"
  /\ LoopFree
  /\ pc' = [pc EXCEPT !["main"] = "serving"]
  /\ UNCHANGED <<pure_vars, env_vars, memory_cache, run_vars, result, ghost_vars,
                 harmonize_vars>>

\* The handler sends its result (send_text, or the HTTP response) and waits
\* for the next message or request.
Respond(p) ==
  /\ p \in Handlers
  /\ pc[p] = "returned"
  /\ LoopFree
  /\ pc' = [pc EXCEPT ![p] = "idle"]
  /\ marley_records' = [marley_records EXCEPT ![p] = <<>>]
  /\ aligned_nodes' = [aligned_nodes EXCEPT ![p] = <<>>]
  /\ update_log' = [update_log EXCEPT ![p] = <<>>]
  /\ result' = [result EXCEPT ![p] = NoResult]
  /\ h_request' = IF p = "ws" THEN NoRequest ELSE h_request
  /\ claude_calls' = IF p = "ws" THEN 0 ELSE claude_calls
  /\ UNCHANGED <<pure_vars, env_vars, memory_cache, run_count, my_run, ghost_vars>>

\* The exception of a failed run reaches the handler: the websocket handler
\* logs it and closes the socket, the REST handler ends with an error
\* response.  A later connection or request starts the handler afresh.
Propagate(p) ==
  /\ p \in Handlers
  /\ pc[p] = "failed"
  /\ LoopFree
  /\ pc' = [pc EXCEPT ![p] = "idle"]
  /\ marley_records' = [marley_records EXCEPT ![p] = <<>>]
  /\ aligned_nodes' = [aligned_nodes EXCEPT ![p] = <<>>]
  /\ update_log' = [update_log EXCEPT ![p] = <<>>]
  /\ UNCHANGED <<pure_vars, env_vars, memory_cache, result, run_count, my_run,
                 ghost_vars, harmonize_vars>>

\* -------------------------------------------------------------- harmonize
HarmonizeContents == {<<"a">>, <<"#">>}

TargetFormats == {"obsidian"}

\* message.content[0].text
GeneratedTexts == {<<"#", NL, "[", "[", "a", "]", "]">>}

\* An except branch that loses the content.
error_payload_no_content(content) ==
  [returned |-> TRUE, error |-> "str(e)", fallback_content |-> Empty]

\* The dictionary of the except branch.
error_payload(content) ==
  [returned |-> TRUE, error |-> "str(e)", fallback_content |-> content]

\* The dictionary of the try branch.
success_payload(request, text, analysis, now) ==
  [returned |-> TRUE,
   original_content |-> request.content,
   harmonized_content |-> text,
   target_format |-> request.target_format,
   spectral_analysis |-> analysis,
   harmonization_timestamp |-> now]

\* A harmonize_content message arrives on the websocket; the prompt is built
\* and messages.create is awaited.
HarmonizeCall ==
  /\ pc["ws"] = "idle"
  /\ pc["main"] = "serving"
  /\ LoopFree
  /\ \E c \in HarmonizeContents, t \in TargetFormats :
       h_request' = [content |-> c, target_format |-> t]
  /\ claude_calls' = claude_calls + 1
  /\ pc' = [pc EXCEPT !["ws"] = "claude_call"]
  /\ UNCHANGED <<pure_vars, env_vars, memory_cache, run_vars, result, ghost_vars>>

\* messages.create returns; the generated text is analysed and returned.
HarmonizeSuccess ==
  /\ pc["ws"] = "claude_call"
  /\ LoopFree
  /\ \E text \in GeneratedTexts :
     \E analysis \in {analyze_spectral_pattern(text)} :
          result' = [result EXCEPT
                       !["ws"] = IF analysis.raised
                                 THEN error_payload(h_request.content)
                                 ELSE success_payload(h_request, text, analysis, clock)]
  /\ pc' = [pc EXCEPT !["ws"] = "returned"]
  /\ UNCHANGED <<pure_vars, env_vars, memory_cache, run_vars, ghost_vars,
                 harmonize_vars>>

\* messages.create (or reading its reply) raises; the except branch returns.
HarmonizeFail ==
  /\ pc["ws"] = "claude_call"
  /\ LoopFree
  /\ result' = [result EXCEPT !["ws"] = error_payload(h_request.content)]
  /\ pc' = [pc EXCEPT !["ws"] = "returned"]
  /\ UNCHANGED <<pure_vars, env_vars, memory_cache, run_vars, ghost_vars,
                 harmonize_vars>>

\* ------------------------------------------------------------ environment
\* Another client of the table rewrites a record's own fields.
StoreEdit ==
  /\ edits < MaxEdits
  /\ \E id \in RecordIds, f \in UserFields :
       /\ store' = [store EXCEPT
                      ![id] = [k \in DOMAIN f \cup (DOMAIN @ \cap SyncFields) |->
                                 IF k \in DOMAIN f THEN f[k] ELSE @[k]]]
       /\ store'[id] # store[id]
  /\ edits' = edits + 1
  /\ UNCHANGED <<pure_vars, clock, memory_cache, pc, run_vars, result, ghost_vars,
                 harmonize_vars>>

Init ==
  /\ content_in = Empty
  /\ locals_out = NoLocals
  /\ analysis_out = NoAnalysis
  /\ nodes_in = <<>>
  /\ nodes_out = <<>>
  /\ pure_pc = "input"
  /\ BridgeConstructed
  /\ store \in InitialTables
  /\ clock = 0
  /\ edits = 0

Next ==
  \/ \E p \in Procs : SyncFetch(p)
  \/ \E p \in Procs : SyncFetchFail(p)
  \/ \E p \in Procs : SyncUpdate(p)
  \/ \E p \in Procs : SyncUpdateFail(p)
  \/ \E p \in Procs : SyncReturn(p)
  \/ Serve
  \/ \E p \in Handlers : Respond(p)
  \/ \E p \in Handlers : Propagate(p)
  \/ HarmonizeCall
  \/ HarmonizeSuccess
  \/ HarmonizeFail
  \/ StoreEdit

Spec == Init /\ [][Next]_vars

\* ================================================================ claims
\* ----- under SpecAnalyze

EmptyAnalysis ==
  [raised |-> FALSE,
   spectral_frequency |-> Zero,
   resonance_threads |-> <<>>,
   structural_depth |-> 0,
   connection_density |-> Zero]

\* C8: analyze applied to the empty string returns a defined result: it does
\* not raise on a division by zero, and gives spectralFrequency 0,
\* connectionDensity 0, structuralDepth 0 and no resonance thread.
C8_EmptyContentDefined ==
  (pure_pc = "returned" /\ content_in = Empty) => analysis_out = EmptyAnalysis

C8_Witness ==
  /\ pure_pc = "returned"
  /\ content_in = Empty
  /\ locals_out.lines = 1
  /\ ~analysis_out.raised

\* C9 as stated: for the three-line example analyze sees 3 lines and counts
\* headingCount = 1, linkCount = 2, tagCount = 1, so structuralDepth = 1,
\* connectionDensity = 2/3, spectralFrequency = (1*2 + 2 + 1*0.5)/3 = 3/2,
\* and the threads are {Concept, label}.
C9_ExampleAsStated ==
  (pure_pc = "returned" /\ content_in = Example) =>
    /\ locals_out.lines = 3
    /\ locals_out.heading_count = 1
    /\ locals_out.link_count = 2
    /\ locals_out.tag_count = 1
    /\ ~analysis_out.raised
    /\ analysis_out.structural_depth = 1
    /\ analysis_out.connection_density = <<2, 3>>
    /\ analysis_out.spectral_frequency = <<3, 2>>
    /\ Range(analysis_out.resonance_threads) = {Concept, label}

\* C9 amended: for the three-line example analyze sees 3 lines and counts
\* headingCount = 2 (the first and the third line start with '#'),
\* linkCount = 1 (only the second line holds '[[' or ']('), tagCount = 0 (no
\* line holds a '#' without starting with one), so structuralDepth = 2,
\* connectionDensity = 1/3, spectralFrequency = (2*2 + 1 + 0*0.5)/3 = 5/3,
\* and the threads are Concept and label, each once.
C9_ExampleAmended ==
  (pure_pc = "returned" /\ content_in = Example) =>
    /\ locals_out.lines = 3
    /\ locals_out.heading_count = 2
    /\ locals_out.link_count = 1
    /\ locals_out.tag_count = 0
    /\ ~analysis_out.raised
    /\ analysis_out.structural_depth = 2
    /\ analysis_out.connection_density = <<1, 3>>
    /\ analysis_out.spectral_frequency = <<5, 3>>
    /\ Range(analysis_out.resonance_threads) = {Concept, label}
    /\ Len(analysis_out.resonance_threads) = 2

C9_Witness ==
  /\ pure_pc = "returned"
  /\ content_in = Example
  /\ locals_out.resonance_threads = <<Concept, label>>

\* ----- under SpecAlign

IdCount(nodes, id) == Cardinality({i \in DOMAIN nodes : nodes[i].id = id})

\* C1: align returns for every input sequence, and neither drops nor adds a
\* node: the output is as long as the input and every id occurs in the output
\* as often as in the input, also when two input nodes share an id.
C1_AlignKeepsNodes ==
  pure_pc # "input" =>
    /\ pure_pc = "returned"
    /\ Len(nodes_out) = Len(nodes_in)
    /\ \A id \in AlignIds : IdCount(nodes_out, id) = IdCount(nodes_in, id)

C1_Witness ==
  /\ pure_pc = "returned"
  /\ Len(nodes_in) = 2
  /\ nodes_in[1].id = nodes_in[2].id
  /\ nodes_in[1].content # nodes_in[2].content
  /\ Len(nodes_out) = 2

\* The frequency the analyzer computes for a content.
AnalyzedFrequency(content) == analyze_spectral_pattern(content).spectral_frequency

\* C2: the output of align is ordered by spectralFrequency non-increasing,
\* each frequency being the one the analyzer computes from the node's
\* content, not the one the node carried on input.
C2_AlignSortedDescending ==
  pure_pc = "returned" =>
    /\ \A i \in DOMAIN nodes_out :
         nodes_out[i].spectral_frequency = AnalyzedFrequency(nodes_out[i].content)
    /\ \A i \in 1..(Len(nodes_out) - 1) :
         ~FracLess(nodes_out[i].spectral_frequency, nodes_out[i + 1].spectral_frequency)

\* The input carried the frequencies in one order and the contents give the
\* other: the second input node comes out first.
C2_Witness ==
  /\ pure_pc = "returned"
  /\ Len(nodes_in) = 2
  /\ FracLess(nodes_in[2].spectral_frequency, nodes_in[1].spectral_frequency)
  /\ FracLess(AnalyzedFrequency(nodes_in[1].content),
              AnalyzedFrequency(nodes_in[2].content))
  /\ nodes_out[1].content = nodes_in[2].content
  /\ nodes_out[2].content = nodes_in[1].content

\* What align is to produce for an input node.
ExpectedAligned(node) ==
  LET a == analyze_spectral_pattern(node.content)
  IN [id |-> node.id,
      content |-> node.content,
      markdown_format |-> node.markdown_format,
      timestamp |-> node.timestamp,
      source |-> node.source,
      harmonization_status |-> "aligned",
      spectral_frequency |-> a.spectral_frequency,
      resonance_threads |-> a.resonance_threads]

C3_OutputNodes ==
  pure_pc = "returned" =>
    \A i \in DOMAIN nodes_in :
      LET e == ExpectedAligned(nodes_in[i])
      IN Cardinality({j \in DOMAIN nodes_out : nodes_out[j] = e})
           = Cardinality({k \in DOMAIN nodes_in : ExpectedAligned(nodes_in[k]) = e})

\* C3: whatever status, frequency and threads an input node carries, align
\* produces for it a node with the same id, content, markdownFormat,
\* timestamp and source, with status 'aligned' and with the analyzer's
\* frequency and threads for its content; the input nodes stay as they were.
C3_AlignFrame == [](C3_OutputNodes) /\ [][nodes_in' = nodes_in]_vars

C3_Witness ==
  /\ pure_pc = "returned"
  /\ \E i \in DOMAIN nodes_in :
       /\ nodes_in[i].harmonization_status = "aligned"
       /\ nodes_in[i].source = "claude"
       /\ nodes_in[i].spectral_frequency # AnalyzedFrequency(nodes_in[i].content)
       /\ nodes_in[i].resonance_threads # <<>>
       /\ nodes_in[i].content = Empty
  /\ \E i \in DOMAIN nodes_in : nodes_in[i].harmonization_status = "pending"

\* ----- under Spec

NodeIds(nodes) == {nodes[i].id : i \in DOMAIN nodes}

NodeOf(nodes, id) == nodes[CHOOSE i \in DOMAIN nodes : nodes[i].id = id]

\* The coroutine that takes this step, if the step starts a run.
StartsRun(p) == run_count' = run_count + 1 /\ my_run'[p] = run_count'

SameEntry(id) ==
  /\ (id \in DOMAIN memory_cache') = (id \in DOMAIN memory_cache)
  /\ id \in DOMAIN memory_cache => memory_cache'[id] = memory_cache[id]

C4_CacheHoldsLatest ==
  \A id \in DOMAIN last_aligned :
    /\ id \in DOMAIN memory_cache
    /\ memory_cache[id] = last_aligned[id]
    /\ memory_cache[id].id = id
    /\ memory_cache[id].harmonization_status = "aligned"

C4_CacheFrame ==
  \A id \in RecordIds :
    (\A p \in Procs : ~(StartsRun(p) /\ id \in NodeIds(aligned_nodes'[p])))
      => SameEntry(id)

\* C4: the cache is keyed by node id and last-write-wins without merge: for
\* every id some run synchronized, the entry under that id is exactly the
\* aligned node (status 'aligned', stored under its own id) of the most
\* recent run that included the id, and a run leaves the entries of the ids
\* it did not synchronize as they were.
C4_CacheLastWriteWins == [](C4_CacheHoldsLatest) /\ [][C4_CacheFrame]_vars

\* Every run is over; recA was cached and written back by an earlier run and
\* cached again by a later one, recB keeps the entry of an earlier run.
C4_Witness ==
  /\ \A p \in Procs : pc[p] \in {"idle", "serving"}
  /\ DOMAIN memory_cache = RecordIds
  /\ "LastSync" \in DOMAIN store["recA"]
  /\ store["recA"].LastSync < memory_cache["recA"].timestamp
  /\ memory_cache["recA"].timestamp = run_count
  /\ memory_cache["recB"].timestamp < run_count

\* The ids of the fetched records that have a Content field.
WithContent(records) ==
  {records[i].id : i \in {j \in DOMAIN records : "Content" \in DOMAIN records[j].fields}}

C5_AtReturn(p) ==
  LET wc == WithContent(marley_records[p])
      log == update_log[p]
  IN /\ Len(log) = Cardinality(wc)
     /\ {log[i].id : i \in DOMAIN log} = wc
     /\ \A i \in DOMAIN log : log[i].fields.HarmonizationStatus = "aligned"
     /\ \A id \in wc :
          /\ id \in DOMAIN memory_cache
          /\ memory_cache[id].id = id
          /\ memory_cache[id].timestamp = my_run[p]
          /\ store[id].HarmonizationStatus = "aligned"
          /\ store[id].LastSync = my_run[p]
     /\ \A id \in RecordIds \ wc :
          /\ id \in DOMAIN memory_cache => memory_cache[id].timestamp < my_run[p]
          /\ "LastSync" \in DOMAIN store[id] => store[id].LastSync < my_run[p]
     /\ result'[p].synchronized_nodes = Cardinality(wc)

\* C5: in a run that completes without failure exactly the fetched records
\* that have a Content field are synchronized: each gets one cache entry and
\* one store update, carrying status 'aligned' and addressed to its own id;
\* the records lacking a Content field get neither; and the summary counts
\* the fetched records that have a Content field.
C5_ExactlyContentRecords ==
  [][\A p \in Procs :
       (pc[p] = "writeback" /\ pc'[p] = "returned") => C5_AtReturn(p)]_vars

\* A completed run over one record with content and one without.
C5_Witness ==
  \E p \in Handlers :
    /\ pc[p] = "returned"
    /\ "synchronized_nodes" \in DOMAIN result[p]
    /\ result[p].synchronized_nodes = 1
    /\ Len(marley_records[p]) = 2
    /\ Len(update_log[p]) = 1

C6_Step ==
  /\ (pc["ws"] = "idle" /\ pc'["ws"] = "claude_call") =>
       /\ claude_calls' = 1
       /\ memory_cache' = memory_cache
       /\ store' = store
  /\ (pc["ws"] = "claude_call" /\ pc'["ws"] # "claude_call") =>
       /\ claude_calls = 1
       /\ claude_calls' = 1
       /\ pc'["ws"] = "returned"
       /\ result'["ws"].returned
       /\ IF "error" \in DOMAIN result'["ws"]
          THEN result'["ws"].fallback_content = h_request.content
          ELSE result'["ws"].original_content = h_request.content
       /\ memory_cache' = memory_cache
       /\ store' = store

\* C6: for a harmonization request the text-generation collaborator is called
\* exactly once; if the call fails the operation still returns, with an error
\* payload whose fallback content is the original content; succeeding or
\* failing, it leaves the cache and the store as they were.
C6_HarmonizeOnceNoFailure == [][C6_Step]_vars

\* The call failed, with a cache that is not empty.
C6_Witness ==
  /\ pc["ws"] = "returned"
  /\ "error" \in DOMAIN result["ws"]
  /\ result["ws"].fallback_content = <<"#">>
  /\ claude_calls = 1
  /\ memory_cache # <<>>

IsSummary(r) == "synchronized_nodes" \in DOMAIN r

BothRunsFinished ==
  \A p \in Handlers : pc[p] = "returned" /\ IsSummary(result[p])

\* C7: when the websocket caller and the REST caller both run a
\* synchronization, then in every interleaving, once both runs have finished,
\* each cache entry one of the two runs wrote is a whole aligned node of the
\* run that wrote that id last: no entry mixes the two runs.
C7_LastWriterWins ==
  BothRunsFinished =>
    \A id \in DOMAIN memory_cache :
      /\ \A p \in Handlers :
           id \in NodeIds(aligned_nodes[p]) => written[id] >= my_run[p]
      /\ \A p \in Handlers :
           written[id] = my_run[p] =>
             /\ id \in NodeIds(aligned_nodes[p])
             /\ memory_cache[id] = NodeOf(aligned_nodes[p], id)

\* Both runs synchronized recA.
C7_Witness ==
  /\ BothRunsFinished
  /\ \A p \in Handlers : "recA" \in NodeIds(aligned_nodes[p])
  /\ NodeOf(aligned_nodes["ws"], "recA") # NodeOf(aligned_nodes["rest"], "recA")
  /\ memory_cache["recA"] = NodeOf(aligned_nodes["rest"], "recA")
  /\ my_run["ws"] < my_run["rest"]

\* The run of p ends in failure at this step, without a summary and with the
\* cache and the store as the step found them.
C10_FailsHard(p) ==
  /\ result'[p] = NoResult
  /\ memory_cache' = memory_cache
  /\ store' = store

C10_Step(p) ==
  IF pc[p] = "writeback"
  THEN LET k == Len(update_log[p]) + 1
           nodes == aligned_nodes[p]
       IN /\ C10_FailsHard(p)
          /\ \A i \in 1..(Len(nodes) - 1) :
               ~FracLess(nodes[i].spectral_frequency, nodes[i + 1].spectral_frequency)
          /\ \A i \in DOMAIN nodes : memory_cache'[nodes[i].id] = nodes[i]
          /\ update_log'[p] = [i \in 1..(k - 1) |->
                                 [id |-> nodes[i].id, fields |-> update_log[p][i].fields]]
          /\ \A i \in 1..(k - 1) : store'[nodes[i].id].LastSync = my_run[p]
          /\ \A i \in k..Len(nodes) :
               "LastSync" \in DOMAIN store'[nodes[i].id]
                 => store'[nodes[i].id].LastSync < my_run[p]
  ELSE /\ C10_FailsHard(p)
       /\ aligned_nodes'[p] = <<>>

\* C10: a collaborator failure during a run is not caught in the run and
\* nothing is rolled back: a failed fetch ends the run in failure with cache
\* and store unchanged; a failed store update of the k-th aligned node (in
\* descending frequency) ends the run in failure without a summary, the
\* cache holding every aligned node of the run and exactly the first k-1
\* aligned nodes written back.
C10_FailureNoRollback ==
  [][\A p \in Procs : (pc[p] # "failed" /\ pc'[p] = "failed") => C10_Step(p)]_vars

\* The update of the second of two aligned nodes failed.
C10_Witness ==
  \E p \in Handlers :
    /\ pc[p] = "failed"
    /\ Len(aligned_nodes[p]) = 2
    /\ Len(update_log[p]) = 1
    /\ FracLess(aligned_nodes[p][2].spectral_frequency,
                aligned_nodes[p][1].spectral_frequency)
    /\ memory_cache[aligned_nodes[p][2].id] = aligned_nodes[p][2]

====
